---- MODULE Spec2Model ----
(***************************************************************************)
(* Model of the OpenCL linear-algebra library in src/main.c: the global    *)
(* GPU struct, gpuInit/gpuClean, the four elementwise operations,          *)
(* dotMatricesF, matVecF and createShapeF.  An operation is a sequence of  *)
(* steps, one per OpenCL call of its body; the OpenCL runtime is modelled  *)
(* by what each call does to the handles, the device buffers and the       *)
(* command queue.  Floats are modelled by integers.                        *)
(***************************************************************************)
EXTENDS Integers, Sequences, FiniteSets, TLC

(***************************************************************************)
(* Bounds of the model.                                                    *)
(***************************************************************************)
MaxRows == 17      \* the largest row extent of an elementwise call
MaxCols == 2       \* the largest column extent of an elementwise call
MaxDim == 2        \* the largest r, c, c2 of dotMatricesF and matVecF
MaxSeed == 0       \* input arrays are generated from seeds 0..MaxSeed
MaxS3 == 2         \* floats allocated for *base_s3 before an elementwise call
MaxCalls == 2      \* operation calls made by the caller in one run
MaxFaults == 1     \* device calls that the runtime fails in one run
MaxN == 8          \* the largest n of createShapeF
MaxSpare == 1      \* floats of s3 beyond the result of dotMatricesF, matVecF
MaxExtent == 257   \* the largest extent of a vector in SpecVector
MaxFaultsPerCall == 2  \* device calls failed in the runs of SpecUnchecked

(***************************************************************************)
(* Program constants.                                                      *)
(***************************************************************************)
SizeofFloat == 4
LocalSize == 32

Ops == {"add", "sub", "cross", "div", "dot", "matvec"}
Elementwise == {"add", "sub", "cross", "div"}
Slots == {"s1", "s2", "s3"}
EventSlots == {"add", "sub", "cross", "div", "dot", "matvec",
               "s1Write", "s2Write", "s3Write"}

\* extents the caller passes to an elementwise operation: a row vector, a
\* column vector, a matrix of less and one of more than 32 floats
Rows == {1, 2, MaxRows}
Cols == 1..MaxCols
\* values an uninitialised float can hold
JunkVals == {0, 5}
\* values createShapeF is asked to fill with
FillVals == {0, 1, 7}

\* the extents of the vectors of SpecVector: 1, 2, each breakpoint of the
\* padding with its two neighbours, and the largest extent
Breaks == {32, 64, 128, 256}
VectorExtents ==
    {e \in 1..MaxExtent :
        e <= 2 \/ e = MaxExtent \/ \E b \in Breaks : e \in {b - 1, b, b + 1}}

Min(a, b) == IF a < b THEN a ELSE b

(***************************************************************************)
(* Float arithmetic of the four elementwise kernels.  A quotient is        *)
(* rounded to an integer; a zero divisor gives the IEEE infinity or NaN,   *)
(* modelled by numbers no other result takes.                              *)
(***************************************************************************)
Inf == 1000000
NaN == 2000000
Quot(a, b) ==
    IF b = 0 THEN (IF a = 0 THEN NaN ELSE IF a > 0 THEN Inf ELSE 0 - Inf)
    ELSE IF a >= 0 THEN a \div b ELSE 0 - ((0 - a) \div b)
Apply(op, a, b) ==
    CASE op = "add" -> a + b
      [] op = "sub" -> a - b
      [] op = "cross" -> a * b
      [] op = "div" -> Quot(a, b)

(***************************************************************************)
(* The padding of addShapesF (and of its three siblings).                  *)
(***************************************************************************)
LadderCeil(e) == LocalSize * ((e + LocalSize - 1) \div LocalSize)
Ladder(e) ==
    IF e < 32 THEN 32
    ELSE IF e < 64 /\ e > 32 THEN 64
    ELSE IF e < 128 /\ e > 64 THEN 128
    ELSE IF e < 256 /\ e > 128 THEN 256
    ELSE e

\* <<r, c>> after the padding
Pad(r, c) ==
    IF r = 1 THEN <<r, Ladder(c)>>
    ELSE IF c = 1 THEN <<Ladder(r), c>>
    ELSE IF r < 32 THEN <<32, c>>
    ELSE IF c < 32 THEN <<r, 32>>
    ELSE <<Ladder(r), Ladder(c)>>

OldSizeGrown(r, c) == SizeofFloat * Pad(r, c)[1] * Pad(r, c)[2]
\* old_size: the bytes of the caller's r*c floats
OldSize(r, c) == SizeofFloat * r * c

ReallocKept(a, bytes, junk) == a
ReallocFresh(a, bytes, junk) == [i \in 1..(bytes \div SizeofFloat) |-> junk]
\* realloc(a, bytes): the prefix is kept, new floats are uninitialised
Realloc(a, bytes, junk) ==
    [i \in 1..(bytes \div SizeofFloat) |-> IF i <= Len(a) THEN a[i] ELSE junk]

\* an input array of n floats
Gen(seed, n) == [i \in 1..n |-> ((seed + 2) * i + seed) % 7]
Fresh(n, junk) == [i \in 1..n |-> junk]


(***************************************************************************)
(* State.                                                                  *)
(*   pc    the caller's position: "start", "idle", a step of the running   *)
(*         operation, "done" (after gpuClean), "exited" (exit(1)),         *)
(*         "crashed" (the kernel faulted)                                  *)
(*   call  the arguments and locals of the running (or last) operation     *)
(*   host  the caller's three arrays *base_s1, *base_s2, *base_s3          *)
(*   gpu   the global GPU struct                                           *)
(*   dev   the OpenCL runtime: the buffer objects of the call, the bound   *)
(*         kernel arguments, the command queue and the event objects that  *)
(*         the program holds a reference to (<<call, slot>> is the event   *)
(*         that call number `call` received in gpu.events.slot), and the   *)
(*         releases gpuClean has made, in their order                      *)
(*   env   the run: calls made and calls the caller makes at most, failures *)
(*         the runtime has produced                                        *)
(*   cs    the activation of createShapeF                                  *)
(*   th    two host threads that call addShapesF on the one gpu struct     *)
(*         without any lock of their own: each thread's position, locals   *)
(*         and arrays, the buffer objects the threads created, and the     *)
(*         in-order command queue                                          *)
(***************************************************************************)
VARIABLES pc, call, host, gpu, dev, env, cs, th

vars == <<pc, call, host, gpu, dev, env, cs, th>>

UnsetArg == 0 - 1
SlotIndex(slot) == CASE slot = "s1" -> 0 [] slot = "s2" -> 1 [] slot = "s3" -> 2
SlotOfArg(i) == CASE i = 0 -> "s1" [] i = 1 -> "s2" [] i = 2 -> "s3"
NoBuf == [id |-> 0, live |-> FALSE, ro |-> FALSE, data |-> <<>>, rel |-> 0]
NoCmd == [active |-> FALSE, hung |-> FALSE, kernel |-> "add", args |-> <<>>,
          dim |-> 0, gsize |-> <<>>, lsize |-> <<>>]
NoCall == [op |-> "add", r0 |-> 0, c0 |-> 0, c2 |-> 0, r |-> 0, c |-> 0,
           old_size |-> 0, size |-> 0, vals |-> 0, argi |-> 0, junk |-> 0,
           in1 |-> <<>>, in2 |-> <<>>, out0 |-> <<>>, chained |-> FALSE,
           orig |-> <<>>,
           up1 |-> FALSE, up2 |-> FALSE, enq |-> FALSE, kdone |-> FALSE,
           read |-> FALSE, wrote |-> FALSE, failed |-> FALSE,
           after |-> FALSE]
NoShape == [pc |-> "off", n |-> 0, fill |-> 0, i |-> 0, s1 |-> <<>>]

Threads == {1, 2}
\* the buffer object thread t creates for a slot
BufOf(t, slot) == 3 * t + SlotIndex(slot)
ThreadBufs == {BufOf(t, b) : t \in Threads, b \in Slots}
NoThread == [pc |-> "out", r |-> 0, c |-> 0, old_size |-> 0, size |-> 0,
             vals |-> 0, argi |-> 0,
             host |-> [b \in Slots |-> <<>>], in1 |-> <<>>, in2 |-> <<>>,
             bound |-> <<>>, cmd |-> <<>>, enq |-> FALSE]
NoThreads == [serial |-> FALSE, junk |-> 0,
              thr |-> [t \in Threads |-> NoThread],
              objs |-> [id \in ThreadBufs |-> [live |-> FALSE, data |-> <<>>]],
              queue |-> <<>>, done |-> {}]

\* gpu is a zero-initialised global: every handle is NULL; the caller makes
\* at most `limit` operation calls and the runtime fails at most `budget`
\* device calls
InitRun(limit, budget) ==
    /\ pc = "start"
    /\ call = NoCall
    /\ host = [s1 |-> <<>>, s2 |-> <<>>, s3 |-> <<>>]
    /\ gpu = [err |-> "CL_SUCCESS", platform |-> FALSE, device |-> FALSE,
              context |-> FALSE, queue |-> FALSE, program |-> FALSE,
              built |-> FALSE,
              kernels |-> [k \in Ops |-> FALSE],
              events |-> [e \in EventSlots |-> 0],
              buffers |-> [b \in Slots |-> 0]]
    /\ dev = [buf |-> [b \in Slots |-> NoBuf],
              args |-> [k \in Ops |-> [i \in 1..7 |-> UnsetArg]],
              pending |-> NoCmd,
              events |-> {},
              log |-> <<>>]
    /\ env = [ncalls |-> 0, nfaults |-> 0, initfail |-> "none",
              limit |-> limit, budget |-> budget]
    /\ cs = NoShape
    /\ th = NoThreads

InitWith(limit) == InitRun(limit, MaxFaults)

Init == InitWith(MaxCalls)

\* whether the runtime may fail the next device call for a reason of its own
Faults == IF env.nfaults < env.budget THEN {FALSE, TRUE} ELSE {FALSE}
Charge(fault) == [env EXCEPT !.nfaults = IF fault THEN @ + 1 ELSE @]

(***************************************************************************)
(* gpuInit: twelve calls into the runtime, no check of any status.  A      *)
(* handle is valid when its own creation succeeded on valid parents.       *)
(* gpu.err ends as the status of the last clCreateKernel.                  *)
(***************************************************************************)
InitSteps == <<"platform", "device", "context", "queue", "program", "build",
               "add", "sub", "cross", "div", "dot", "matvec">>
InitFailures == {"none"} \cup {InitSteps[i] : i \in 1..Len(InitSteps)}

GpuInitResult(f) ==
    LET platform == f # "platform"
        device == platform /\ f # "device"
        context == device /\ f # "context"
        queue == context /\ f # "queue"
        program == context /\ f # "program"
        built == program /\ f # "build"
        kernels == [k \in Ops |-> built /\ f # k]
    IN  [gpu EXCEPT !.platform = platform, !.device = device,
                    !.context = context, !.queue = queue,
                    !.program = program, !.built = built,
                    !.kernels = kernels,
                    !.err = IF kernels["matvec"] THEN "CL_SUCCESS"
                            ELSE "CL_INVALID_PROGRAM_EXECUTABLE"]

GpuInit ==
    /\ pc = "start"
    /\ \E f \in InitFailures :
          /\ f # "none" => TRUE \in Faults
          /\ gpu' = GpuInitResult(f)
          /\ env' = [Charge(f # "none") EXCEPT !.initfail = f]
    /\ pc' = "idle"
    /\ UNCHANGED <<call, host, dev, cs, th>>

(***************************************************************************)
(* The caller.  A call passes fresh operands; after an addShapesF the      *)
(* caller may instead pass its result and its second operand to            *)
(* subtractShapesF (the round trip).                                       *)
(***************************************************************************)
NewCall(op, r, c, c2, junk, a1, a2) ==
    [NoCall EXCEPT !.op = op, !.r0 = r, !.c0 = c, !.c2 = c2, !.r = r, !.c = c,
                   !.junk = junk, !.in1 = a1, !.in2 = a2]

Enter(rec, a1, a2, a3) ==
    /\ pc = "idle"
    /\ env.ncalls < env.limit
    /\ call' = rec
    /\ host' = [s1 |-> a1, s2 |-> a2, s3 |-> a3]
    /\ env' = [env EXCEPT !.ncalls = @ + 1]
    /\ dev' = [dev EXCEPT !.buf = [b \in Slots |-> NoBuf]]
    /\ pc' = IF rec.op \in Elementwise THEN "pad" ELSE "create1"
    /\ UNCHANGED <<gpu, cs, th>>

CallElementwise ==
    \E op \in Elementwise, r \in Rows, c \in Cols, seed \in 0..MaxSeed,
       junk \in JunkVals, n3 \in 1..MaxS3 :
        LET a1 == Gen(seed, r * c)
            a2 == Gen(seed + 1, r * c)
        IN  Enter(NewCall(op, r, c, 0, junk, a1, a2), a1, a2, Fresh(n3, junk))

\* a call on a row vector (1 x e) or a column vector (e x 1)
CallVector ==
    \E op \in Elementwise, e \in VectorExtents, row \in BOOLEAN,
       seed \in 0..MaxSeed, junk \in JunkVals :
        LET r == IF row THEN 1 ELSE e
            c == IF row THEN e ELSE 1
            a1 == Gen(seed, r * c)
            a2 == Gen(seed + 1, r * c)
        IN  Enter(NewCall(op, r, c, 0, junk, a1, a2), a1, a2, Fresh(1, junk))

CallRoundTrip ==
    /\ call.op = "add"
    /\ env.ncalls > 0
    /\ ~call.chained
    /\ \E junk \in JunkVals, n3 \in 1..MaxS3 :
        Enter([NewCall("sub", call.r0, call.c0, 0, junk, host.s3, host.s2)
                  EXCEPT !.chained = TRUE, !.orig = call.in1],
              host.s3, host.s2, Fresh(n3, junk))

CallDot ==
    \E r \in 1..MaxDim, c \in 1..MaxDim, c2 \in 1..MaxDim, seed \in 0..MaxSeed,
       junk \in JunkVals, spare \in 0..MaxSpare :
        LET a1 == Gen(seed, r * c)
            a2 == Gen(seed + 1, c * c2)
            a3 == Fresh(r * c2 + spare, junk)
        IN  Enter([NewCall("dot", r, c, c2, junk, a1, a2) EXCEPT !.out0 = a3],
                  a1, a2, a3)

CallMatVec ==
    \E r \in 1..MaxDim, c \in 1..MaxDim, seed \in 0..MaxSeed,
       junk \in JunkVals, spare \in 0..MaxSpare :
        LET a1 == Gen(seed, r * c)
            a2 == Gen(seed + 1, r)
            a3 == Fresh(r + spare, junk)
        IN  Enter([NewCall("matvec", r, c, 0, junk, a1, a2) EXCEPT !.out0 = a3],
                  a1, a2, a3)


(***************************************************************************)
(* The steps of an operation.  dotMatricesF calls checkError() after every *)
(* device call; the elementwise operations and matVecF never do.           *)
(***************************************************************************)
Checked(op) == op = "dot"

\* checkError: exit(1) on a status other than CL_SUCCESS
After(status, next) ==
    IF Checked(call.op) /\ status # "CL_SUCCESS" THEN "exited" ELSE next

\* the record of a device call: did it fail, and was one made after a failure
Noted(status) ==
    [call EXCEPT !.after = @ \/ call.failed,
                 !.failed = @ \/ status # "CL_SUCCESS"]

BufId(slot) == 3 * env.ncalls + SlotIndex(slot)

\* the bytes of the device buffer of a slot
BufBytes(slot) ==
    CASE call.op \in Elementwise -> call.size
      [] call.op = "dot" ->
            SizeofFloat * (CASE slot = "s1" -> call.r * call.c
                             [] slot = "s2" -> call.c * call.c2
                             [] slot = "s3" -> call.r * call.c2)
      [] call.op = "matvec" ->
            SizeofFloat * (IF slot = "s1" THEN call.r * call.c ELSE call.r)

\* CL_MEM_READ_ONLY: both inputs, and the output buffer of dotMatricesF
ReadOnly(op, slot) == slot \in {"s1", "s2"} \/ op = "dot"

\* lines 128-209: old_size, then the padding of r and c
PadShape ==
    /\ pc = "pad"
    /\ call' = [call EXCEPT !.old_size = OldSize(call.r, call.c),
                            !.r = Pad(call.r, call.c)[1],
                            !.c = Pad(call.r, call.c)[2]]
    /\ pc' = "grow"
    /\ UNCHANGED <<host, gpu, dev, env, cs, th>>

\* lines 210-213: the three arrays are grown to the padded size
Grow ==
    /\ pc = "grow"
    /\ LET size == SizeofFloat * call.r * call.c
       IN  /\ call' = [call EXCEPT !.size = size]
           /\ host' = [b \in Slots |-> Realloc(host[b], size, call.junk)]
    /\ pc' = "create1"
    /\ UNCHANGED <<gpu, dev, env, cs, th>>

\* clCreateBuffer: the handle (NULL on failure) and the status are stored
Create(slot, here, next) ==
    /\ pc = here
    /\ \E fault \in Faults :
        LET ok == gpu.context /\ ~fault
            status == IF ok THEN "CL_SUCCESS"
                      ELSE IF fault THEN "CL_MEM_OBJECT_ALLOCATION_FAILURE"
                      ELSE "CL_INVALID_CONTEXT"
        IN  /\ gpu' = [gpu EXCEPT !.err = status,
                           !.buffers[slot] = IF ok THEN BufId(slot) ELSE 0]
            /\ dev' = [dev EXCEPT !.buf[slot] =
                          IF ok
                          THEN [id |-> BufId(slot), live |-> TRUE,
                                ro |-> ReadOnly(call.op, slot),
                                data |-> Fresh(BufBytes(slot) \div SizeofFloat,
                                               call.junk),
                                rel |-> 0]
                          ELSE NoBuf]
            /\ call' = Noted(status)
            /\ env' = Charge(fault)
            /\ pc' = After(status, next)
    /\ UNCHANGED <<host, cs, th>>

Create1 == Create("s1", "create1", "create2")
Create2 == Create("s2", "create2", "create3")
Create3 == Create("s3", "create3", "write1")

\* the event object a successful enqueue returns into gpu.events.slot; the
\* event the slot held before is not released
NewEvent(slot) == <<env.ncalls, slot>>
WriteEvent(slot) == IF slot = "s1" THEN "s1Write" ELSE "s2Write"

\* clEnqueueWriteBuffer, blocking: the buffer holds the host floats on return
Write(slot, here, next) ==
    /\ pc = here
    /\ \E fault \in Faults :
        LET b == dev.buf[slot]
            ok == gpu.queue /\ gpu.buffers[slot] # 0 /\ b.live /\ ~fault
            status == IF ok THEN "CL_SUCCESS"
                      ELSE IF fault THEN "CL_OUT_OF_RESOURCES"
                      ELSE IF ~gpu.queue THEN "CL_INVALID_COMMAND_QUEUE"
                      ELSE "CL_INVALID_MEM_OBJECT"
            n == BufBytes(slot) \div SizeofFloat
        IN  /\ gpu' = [gpu EXCEPT !.err = status,
                           !.events[WriteEvent(slot)] =
                               IF ok THEN env.ncalls ELSE @]
            /\ dev' = [dev EXCEPT
                          !.buf[slot].data =
                              IF ok THEN SubSeq(host[slot], 1, n) ELSE @,
                          !.events =
                              IF ok THEN @ \cup {NewEvent(WriteEvent(slot))}
                              ELSE @]
            /\ call' = [Noted(status) EXCEPT
                          !.up1 = @ \/ (ok /\ slot = "s1"),
                          !.up2 = @ \/ (ok /\ slot = "s2")]
            /\ env' = Charge(fault)
            /\ pc' = After(status, next)
    /\ UNCHANGED <<host, cs, th>>

Write1 == Write("s1", "write1", "write2")
Write2 == Write("s2", "write2", "waitup")

\* clWaitForEvents on uploads, which were blocking: it returns at once
WaitUploads ==
    /\ pc = "waitup"
    /\ \E fault \in Faults :
        LET ok == gpu.events["s1Write"] # 0 /\ gpu.events["s2Write"] # 0 /\ ~fault
            status == IF ok THEN "CL_SUCCESS"
                      ELSE IF fault THEN "CL_OUT_OF_RESOURCES"
                      ELSE "CL_INVALID_EVENT"
        IN  /\ gpu' = [gpu EXCEPT !.err = status]
            /\ call' = [Noted(status) EXCEPT !.vals = call.r * call.c,
                                            !.argi = 0]
            /\ env' = Charge(fault)
            /\ pc' = After(status, "arg")
    /\ UNCHANGED <<host, dev, cs, th>>

NArgs(op) == CASE op \in Elementwise -> 4 [] op = "dot" -> 7 [] op = "matvec" -> 6

\* the value clSetKernelArg binds to argument i
ArgValue(i) ==
    IF i <= 2 THEN gpu.buffers[SlotOfArg(i)]
    ELSE CASE call.op \in Elementwise -> call.vals
           [] call.op = "dot" ->
                 (CASE i = 3 -> call.c [] i = 4 -> call.r
                    [] i = 5 -> call.c [] i = 6 -> call.c2)
           [] call.op = "matvec" ->
                 (CASE i = 3 -> call.c [] i = 4 -> call.r [] i = 5 -> call.c)

BindOnce(args, i, v) ==
    IF args[i + 1] # UnsetArg THEN args ELSE [args EXCEPT ![i + 1] = v]
\* clSetKernelArg: the kernel object holds v as argument i from now on
Bind(args, i, v) == [args EXCEPT ![i + 1] = v]

SetArg ==
    /\ pc = "arg"
    /\ \E fault \in Faults :
        LET i == call.argi
            ok == gpu.kernels[call.op] /\ ~fault
            status == IF ok THEN "CL_SUCCESS"
                      ELSE IF fault THEN "CL_OUT_OF_HOST_MEMORY"
                      ELSE "CL_INVALID_KERNEL"
        IN  /\ gpu' = [gpu EXCEPT !.err = status]
            /\ dev' = [dev EXCEPT !.args[call.op] =
                          IF ok THEN Bind(@, i, ArgValue(i)) ELSE @]
            /\ call' = [Noted(status) EXCEPT !.argi = i + 1]
            /\ env' = Charge(fault)
            /\ pc' = After(status, IF i + 1 = NArgs(call.op) THEN "enqueue"
                                   ELSE "arg")
    /\ UNCHANGED <<host, cs, th>>


(***************************************************************************)
(* The launch.  work_dim is 1 in both branches of an elementwise           *)
(* operation, so only the first entry of globalSize and localSize counts.  *)
(***************************************************************************)
Geometry(op, r, c, c2) ==
    CASE op \in Elementwise ->
            IF r = 1 \/ c = 1
            THEN [dim |-> 1, gsize |-> <<IF r = 1 THEN c ELSE r>>,
                  lsize |-> <<LocalSize>>]
            ELSE [dim |-> 1, gsize |-> <<r, c>>,
                  lsize |-> <<LocalSize, LocalSize>>]
      [] op = "dot" -> [dim |-> 3, gsize |-> <<r, c, c2>>, lsize |-> <<1, c, 1>>]
      [] op = "matvec" -> [dim |-> 2, gsize |-> <<r, c>>, lsize |-> <<1, c>>]

\* the work-items of an NDRange: the product of its work_dim global sizes
RECURSIVE WorkItems(_, _)
WorkItems(gsize, dim) ==
    IF dim = 0 THEN 1 ELSE gsize[dim] * WorkItems(gsize, dim - 1)

\* the runtime rejects a global size that the local size does not divide
GeometryOk(g) ==
    \A d \in 1..g.dim :
        g.gsize[d] > 0 /\ g.lsize[d] > 0 /\ g.gsize[d] % g.lsize[d] = 0

\* clEnqueueNDRangeKernel: the command takes the arguments bound now
Enqueue ==
    /\ pc = "enqueue"
    /\ \E fault \in Faults :
        LET op == call.op
            g == Geometry(op, call.r, call.c, call.c2)
            bound == \A i \in 0..(NArgs(op) - 1) : dev.args[op][i + 1] # UnsetArg
            ok == gpu.queue /\ gpu.kernels[op] /\ bound /\ GeometryOk(g) /\ ~fault
            status == IF ok THEN "CL_SUCCESS"
                      ELSE IF fault THEN "CL_OUT_OF_RESOURCES"
                      ELSE IF ~gpu.queue THEN "CL_INVALID_COMMAND_QUEUE"
                      ELSE IF ~gpu.kernels[op] THEN "CL_INVALID_KERNEL"
                      ELSE IF ~bound THEN "CL_INVALID_KERNEL_ARGS"
                      ELSE "CL_INVALID_WORK_GROUP_SIZE"
        IN  /\ gpu' = [gpu EXCEPT !.err = status,
                           !.events[op] = IF ok THEN env.ncalls ELSE @]
            /\ dev' = [dev EXCEPT
                          !.pending =
                              IF ok
                              THEN [active |-> TRUE, hung |-> FALSE,
                                    kernel |-> op, args |-> dev.args[op],
                                    dim |-> g.dim, gsize |-> g.gsize,
                                    lsize |-> g.lsize]
                              ELSE @,
                          !.events = IF ok THEN @ \cup {NewEvent(op)} ELSE @]
            /\ call' = [Noted(status) EXCEPT !.enq = @ \/ ok]
            /\ env' = Charge(fault)
            /\ pc' = After(status, "waitk")
    /\ UNCHANGED <<host, cs, th>>

(***************************************************************************)
(* The kernels.  Each operator gives the output buffer after the whole     *)
(* NDRange has run, from the ids the work-items get.                       *)
(***************************************************************************)
At(d, i) == IF i + 1 \in DOMAIN d THEN d[i + 1] ELSE 0

\* addShapesF .. divideShapesF: work-item index writes s3[index] if index < n
ElementwiseOut(op, d1, d2, d3, n, G) ==
    [k \in 1..Len(d3) |->
        IF k - 1 < G[1] /\ k - 1 < n
        THEN Apply(op, At(d1, k - 1), At(d2, k - 1))
        ELSE d3[k]]

\* dotMatricesF.  row = get_global_id(0), col2 = get_global_id(1) and
\* col = get_local_id(0), which is 0 for every work-item as the local size
\* of dimension 0 is 1.  So every work-item that passes the guard writes
\* partial_sums[0] (the last writer, of column w, wins) and sums
\* partial_sums[0..c-1], of which the slots from 1 on are never written
\* (lj is what they hold).  s3[row*c2 + col2] is written for col2 below
\* both the global size of dimension 1 and c2.
DotOut(d1, d2, d3, r, c, c2, G, w, lj) ==
    [k \in 1..Len(d3) |->
        LET row == (k - 1) \div c2
            col2 == (k - 1) % c2
        IN  IF row < G[1] /\ row < r /\ 0 < c /\ col2 < G[2] /\ col2 < c2
            THEN At(d1, row * c) * At(d2, w) + (c - 1) * lj
            ELSE d3[k]]

RECURSIVE RowSum(_, _, _, _)
RowSum(m, row, c, n) ==
    IF n = 0 THEN 0 ELSE RowSum(m, row, c, n - 1) + At(m, row * c + n - 1)

\* MatrixFMulVecF: work-item (row, col) writes partial_sums[col], and the
\* one with col = 0 sums the c slots into out[row]
MatVecOut(m, v, out, r, c, G) ==
    [k \in 1..Len(out) |->
        IF k - 1 < G[1] /\ k - 1 < r /\ 0 < c /\ G[2] = c
        THEN RowSum(m, k - 1, c, c) * At(v, k - 1)
        ELSE out[k]]

(***************************************************************************)
(* The work-items of a command, one by one: <<x, y, z>> are the global ids *)
(* of a work-item, of which the dimensions past work_dim are 0.            *)
(***************************************************************************)
Extent(cmd, d) == IF d <= cmd.dim THEN cmd.gsize[d] ELSE 1

NDRange(cmd) ==
    {<<x, y, z>> : x \in 0..(Extent(cmd, 1) - 1),
                   y \in 0..(Extent(cmd, 2) - 1),
                   z \in 0..(Extent(cmd, 3) - 1)}

\* get_global_id(d), get_local_id(d) and the work-group of a work-item
GlobalId(cmd, item, d) == IF d < cmd.dim THEN item[d + 1] ELSE 0
LocalId(cmd, item, d) ==
    IF d < cmd.dim THEN item[d + 1] % cmd.lsize[d + 1] ELSE 0
Group(cmd, item) ==
    [d \in 1..3 |-> IF d <= cmd.dim THEN item[d] \div cmd.lsize[d] ELSE 0]

\* the kernel's variable col: get_local_id(0) in dotMatricesF,
\* get_global_id(1) in MatrixFMulVecF
KernelColLocal(cmd, item) == LocalId(cmd, item, 0)
KernelCol(cmd, item) ==
    IF cmd.kernel = "dot" THEN LocalId(cmd, item, 0)
    ELSE GlobalId(cmd, item, 1)

\* the guard of the two product kernels, inside which the barrier stands
Guard(cmd, item) ==
    LET row == GlobalId(cmd, item, 0)
    IN  CASE cmd.kernel = "dot" ->
                /\ row < cmd.args[5]
                /\ KernelCol(cmd, item) < cmd.args[6]
                /\ GlobalId(cmd, item, 1) < cmd.args[7]
          [] cmd.kernel = "matvec" ->
                row < cmd.args[5] /\ KernelCol(cmd, item) < cmd.args[6]
          [] OTHER -> FALSE

\* the slots of partial_sums a work-item writes before the barrier
PartialSlot(cmd, item) ==
    IF Guard(cmd, item) THEN {KernelCol(cmd, item)} ELSE {}

\* the work-items past the barrier that run the serial sum, and the element
\* of the output each of them writes
Sums(cmd, item) == Guard(cmd, item) /\ KernelCol(cmd, item) = 0
OutIndex(cmd, item) ==
    IF cmd.kernel = "dot"
    THEN GlobalId(cmd, item, 0) * cmd.args[7] + GlobalId(cmd, item, 1)
    ELSE GlobalId(cmd, item, 0)

\* the work-items of the work-group of item that write slot k
SlotWriters(cmd, item, k) ==
    {j \in NDRange(cmd) :
        Group(cmd, j) = Group(cmd, item) /\ k \in PartialSlot(cmd, j)}

\* the buffer object a bound argument names, if it is live
Named(id) == {b \in Slots : dev.buf[b].live /\ dev.buf[b].id = id}
ArgsLive(cmd) == \A i \in 1..3 : Named(cmd.args[i]) # {}
BufData(id) == dev.buf[CHOOSE b \in Slots : b \in Named(id)].data

\* a command the device never completes stays as it is; a completed one
\* leaves the queue
Unfinished == dev.pending
Finished == NoCmd

\* the device runs the pending kernel on live buffers; a[i] is argument i
KernelRun ==
    /\ dev.pending.active /\ ~dev.pending.hung
    /\ ArgsLive(dev.pending)
    /\ LET cmd == dev.pending
           a == [i \in 0..6 |-> cmd.args[i + 1]]
           d1 == BufData(a[0])
           d2 == BufData(a[1])
           out == CHOOSE b \in Slots : b \in Named(a[2])
           d3 == dev.buf[out].data
       IN  \E w \in 0..MaxDim, lj \in JunkVals, lands \in BOOLEAN :
             \* the winner and the junk matter to dotMatricesF alone, and
             \* a kernel's write into a CL_MEM_READ_ONLY buffer is undefined
             /\ cmd.kernel = "dot" => w < Min(cmd.gsize[2], a[6])
             /\ cmd.kernel # "dot" => w = 0 /\ lj = call.junk
             /\ ~dev.buf[out].ro => lands
             /\ call' = [call EXCEPT !.kdone = TRUE, !.wrote = lands]
             /\ dev' = [dev EXCEPT
                  !.pending = Finished,
                  !.buf[out].data =
                     IF ~lands THEN @
                     ELSE CASE cmd.kernel \in Elementwise ->
                                 ElementwiseOut(cmd.kernel, d1, d2, d3, a[3],
                                                cmd.gsize)
                            [] cmd.kernel = "dot" ->
                                 DotOut(d1, d2, d3, a[4], a[5], a[6],
                                        cmd.gsize, w, lj)
                            [] cmd.kernel = "matvec" ->
                                 MatVecOut(d1, d2, d3, a[4], a[5], cmd.gsize)]
    /\ UNCHANGED <<pc, host, gpu, env, cs, th>>

\* a kernel whose pointer argument is NULL or a released buffer: undefined;
\* it writes nothing the host reads back ...
KernelStray ==
    /\ dev.pending.active /\ ~dev.pending.hung
    /\ ~ArgsLive(dev.pending)
    /\ dev' = [dev EXCEPT !.pending = Finished]
    /\ call' = [call EXCEPT !.kdone = TRUE]
    /\ UNCHANGED <<pc, host, gpu, env, cs, th>>

\* ... or it takes the process down
KernelCrash ==
    /\ dev.pending.active /\ ~dev.pending.hung
    /\ ~ArgsLive(dev.pending)
    /\ pc \notin {"exited", "crashed"}
    /\ pc' = "crashed"
    /\ dev' = [dev EXCEPT !.pending = Finished]
    /\ UNCHANGED <<call, host, gpu, env, cs, th>>

\* dotMatricesF: the barrier is inside the guard; in a work-group where some
\* work-item fails the guard (c2 < c) the others may wait at it for ever
KernelHang ==
    /\ dev.pending.active /\ ~dev.pending.hung
    /\ dev.pending.kernel = "dot"
    /\ dev.pending.args[7] < dev.pending.gsize[2]
    /\ dev' = [dev EXCEPT !.pending.hung = TRUE]
    /\ UNCHANGED <<pc, call, host, gpu, env, cs, th>>


\* clWaitForEvents on the kernel's event slot: an error at once for a NULL
\* event, else it blocks until the event's command is complete.  An event
\* left in the slot by an earlier call is complete already.
WaitKernel ==
    /\ pc = "waitk"
    /\ \E fault \in Faults :
        LET ok == gpu.events[call.op] # 0 /\ ~fault
            status == IF ok THEN "CL_SUCCESS"
                      ELSE IF fault THEN "CL_OUT_OF_RESOURCES"
                      ELSE "CL_INVALID_EVENT"
        IN  /\ ok /\ gpu.events[call.op] = env.ncalls => ~dev.pending.active
            /\ gpu' = [gpu EXCEPT !.err = status]
            /\ call' = Noted(status)
            /\ env' = Charge(fault)
            /\ pc' = After(status, "read")
    /\ UNCHANGED <<host, dev, cs, th>>

DownloadedWhole(a, data, n) == [i \in 1..Len(a) |-> At(data, i - 1)]
\* the host array a after n floats of a buffer have been copied to its start
Downloaded(a, data, n) ==
    [i \in 1..Len(a) |-> IF i <= n THEN data[i] ELSE a[i]]

\* clEnqueueReadBuffer, blocking, on the in-order queue: it copies the
\* buffer into *base_s3 once every earlier command is complete
Read ==
    /\ pc = "read"
    /\ \E fault \in Faults :
        LET b == dev.buf["s3"]
            ok == gpu.queue /\ gpu.buffers["s3"] # 0 /\ b.live /\ ~fault
            status == IF ok THEN "CL_SUCCESS"
                      ELSE IF fault THEN "CL_OUT_OF_RESOURCES"
                      ELSE IF ~gpu.queue THEN "CL_INVALID_COMMAND_QUEUE"
                      ELSE "CL_INVALID_MEM_OBJECT"
            n == BufBytes("s3") \div SizeofFloat
        IN  /\ ok => ~dev.pending.active
            /\ gpu' = [gpu EXCEPT !.err = status,
                           !.events["s3Write"] = IF ok THEN env.ncalls ELSE @]
            /\ host' = [host EXCEPT !.s3 =
                          IF ok THEN Downloaded(@, b.data, n) ELSE @]
            /\ dev' = [dev EXCEPT
                          !.events = IF ok THEN @ \cup {NewEvent("s3Write")}
                                     ELSE @]
            /\ call' = [Noted(status) EXCEPT !.read = @ \/ ok]
            /\ env' = Charge(fault)
            /\ pc' = After(status, "waitrd")
    /\ UNCHANGED <<cs, th>>

WaitRead ==
    /\ pc = "waitrd"
    /\ \E fault \in Faults :
        LET ok == gpu.events["s3Write"] # 0 /\ ~fault
            status == IF ok THEN "CL_SUCCESS"
                      ELSE IF fault THEN "CL_OUT_OF_RESOURCES"
                      ELSE "CL_INVALID_EVENT"
        IN  /\ gpu' = [gpu EXCEPT !.err = status]
            /\ call' = Noted(status)
            /\ env' = Charge(fault)
            /\ pc' = After(status, "release")
    /\ UNCHANGED <<host, dev, cs, th>>

\* the three clReleaseMemObject; releasing NULL is an error nobody reads
Release ==
    /\ pc = "release"
    /\ dev' = [dev EXCEPT !.buf =
                  [b \in Slots |->
                      IF gpu.buffers[b] # 0 /\ dev.buf[b].id = gpu.buffers[b]
                      THEN [dev.buf[b] EXCEPT !.live = FALSE, !.rel = @ + 1]
                      ELSE dev.buf[b]]]
    /\ pc' = IF call.op \in Elementwise THEN "shrink" ELSE "idle"
    /\ UNCHANGED <<call, host, gpu, env, cs, th>>

\* lines 254-256: the three arrays are shrunk to old_size
Shrink ==
    /\ pc = "shrink"
    /\ host' = [b \in Slots |-> Realloc(host[b], call.old_size, call.junk)]
    /\ pc' = "idle"
    /\ UNCHANGED <<call, gpu, dev, env, cs, th>>

\* the event slots gpuClean passes to clReleaseEvent, in its order:
\* crossFEvent twice, divideFEvent never
CleanedEvents == <<"add", "cross", "sub", "cross", "dot", "matvec",
                   "s1Write", "s2Write", "s3Write">>

\* the kernels gpuClean passes to clReleaseKernel, in its order
CleanedKernels == <<"add", "sub", "cross", "div", "dot", "matvec">>

Step(kind, name) == [kind |-> kind, name |-> name]

CleanStepsProgramFirst ==
    <<Step("program", "program")>>
    \o [i \in 1..Len(CleanedKernels) |-> Step("kernel", CleanedKernels[i])]
    \o [i \in 1..Len(CleanedEvents) |-> Step("event", CleanedEvents[i])]
    \o <<Step("queue", "queue"), Step("context", "context"),
         Step("device", "device")>>
\* the releases of gpuClean, in the order of its statements
CleanSteps ==
    [i \in 1..Len(CleanedKernels) |-> Step("kernel", CleanedKernels[i])]
    \o [i \in 1..Len(CleanedEvents) |-> Step("event", CleanedEvents[i])]
    \o <<Step("program", "program"), Step("queue", "queue"),
         Step("context", "context"), Step("device", "device")>>

\* the first release of CleanSteps that names a handle named before
Repeated ==
    CHOOSE i \in 1..Len(CleanSteps) :
        /\ \E j \in 1..(i - 1) : CleanSteps[j] = CleanSteps[i]
        /\ \A k \in 1..(i - 1) :
              \A j \in 1..(k - 1) : CleanSteps[j] # CleanSteps[k]

\* whether the handle a release names has been created and not released
Held(step) ==
    CASE step.kind = "kernel" -> gpu.kernels[step.name]
      [] step.kind = "event" -> <<gpu.events[step.name], step.name>> \in dev.events
      [] step.kind = "program" -> gpu.program
      [] step.kind = "queue" -> gpu.queue
      [] step.kind = "context" -> gpu.context
      [] step.kind = "device" -> gpu.device

\* the event objects the first n releases of gpuClean name
Cleaned(n) ==
    {<<gpu.events[CleanSteps[i].name], CleanSteps[i].name>> :
        i \in {k \in 1..n : CleanSteps[k].kind = "event"}}

\* gpuClean: the kernels, the events of CleanedEvents, the program, the
\* queue, the context and the device are released; no slot is reset.  The
\* second release of a crossFEvent that the first one destroyed is
\* undefined: the runtime rejects it, or the process faults there.  The
\* log keeps each release made and whether its handle was held then.
GpuClean ==
    /\ pc = "idle"
    /\ \E faulted \in {FALSE, gpu.events["cross"] # 0} :
        LET n == IF faulted THEN Repeated ELSE Len(CleanSteps)
            made(kind) == \E i \in 1..n : CleanSteps[i].kind = kind
        IN  /\ gpu' = [gpu EXCEPT
                         !.kernels = [k \in Ops |-> FALSE],
                         !.program = @ /\ ~made("program"),
                         !.built = @ /\ ~made("program"),
                         !.queue = @ /\ ~made("queue"),
                         !.context = @ /\ ~made("context"),
                         !.device = @ /\ ~made("device")]
            /\ dev' = [dev EXCEPT
                         !.events = @ \ Cleaned(n),
                         !.log = [i \in 1..n |->
                                   [kind |-> CleanSteps[i].kind,
                                    name |-> CleanSteps[i].name,
                                    held |-> /\ Held(CleanSteps[i])
                                             /\ \A j \in 1..(i - 1) :
                                                   CleanSteps[j]
                                                       # CleanSteps[i]]]]
            /\ pc' = IF faulted THEN "crashed" ELSE "done"
    /\ UNCHANGED <<call, host, env, cs, th>>

(***************************************************************************)
(* createShapeF: malloc, then the fill loop.                               *)
(***************************************************************************)
FillCondShort(i, n) == i + 1 < n
\* the loop condition i < n
FillCond(i, n) == i < n

CreateShapeCall ==
    /\ cs.pc = "off"
    /\ \E n \in 0..MaxN, v \in FillVals, junk \in JunkVals :
        cs' = [pc |-> "fill", n |-> n, fill |-> v, i |-> 0,
               s1 |-> Fresh((SizeofFloat * n) \div SizeofFloat, junk)]
    /\ UNCHANGED <<pc, call, host, gpu, dev, env, th>>

CreateShapeFill ==
    /\ cs.pc = "fill"
    /\ FillCond(cs.i, cs.n)
    /\ cs' = [cs EXCEPT !.s1 = [k \in 1..Len(@) |->
                                   IF k = cs.i + 1 THEN cs.fill ELSE @[k]],
                        !.i = @ + 1]
    /\ UNCHANGED <<pc, call, host, gpu, dev, env, th>>

CreateShapeReturn ==
    /\ cs.pc = "fill"
    /\ ~FillCond(cs.i, cs.n)
    /\ cs' = [cs EXCEPT !.pc = "returned"]
    /\ UNCHANGED <<pc, call, host, gpu, dev, env, th>>

(***************************************************************************)
(* Two host threads in addShapesF.  Every statement of the function that   *)
(* reads or writes the gpu struct, the kernel object or the queue is a     *)
(* step; the padding and the reallocs, which touch the thread's own        *)
(* arrays only, go with the step next to them.  A handle a thread reads    *)
(* from gpu.buffers may be a buffer of the other thread, and may have been *)
(* released by it: the use of a released handle is undefined, the runtime  *)
(* rejects it or the process faults.                                       *)
(***************************************************************************)
\* the caller starts the threads, under a lock around each call or without
Spawn ==
    /\ pc = "idle"
    /\ env.ncalls = 0
    /\ \E serial \in BOOLEAN, junk \in JunkVals :
          th' = [th EXCEPT !.serial = serial, !.junk = junk]
    /\ pc' = "threads"
    /\ UNCHANGED <<call, host, gpu, dev, env, cs>>

\* thread t may take a step: with the lock, only while no other thread is
\* inside its call
Running(t) ==
    /\ pc = "threads"
    /\ th.serial =>
          \A u \in Threads \ {t} : th.thr[u].pc \in {"out", "returned"}

Dead(h) == h \notin ThreadBufs \/ ~th.objs[h].live
Faulted == pc' = "crashed" /\ UNCHANGED <<gpu, dev, th>>

\* lines 126-213: the call on the thread's own 1 x 1 operands, old_size,
\* the padding and the three reallocs
TEnter(t) ==
    /\ Running(t)
    /\ th.thr[t].pc = "out"
    /\ LET a1 == Gen(t, 1)
           a2 == Gen(t + 1, 1)
           p == Pad(1, 1)
           size == SizeofFloat * p[1] * p[2]
       IN  th' = [th EXCEPT !.thr[t] =
                    [NoThread EXCEPT
                        !.pc = "create1", !.r = p[1], !.c = p[2],
                        !.old_size = OldSize(1, 1), !.size = size,
                        !.in1 = a1, !.in2 = a2,
                        !.host = [s1 |-> Realloc(a1, size, th.junk),
                                  s2 |-> Realloc(a2, size, th.junk),
                                  s3 |-> Fresh(size \div SizeofFloat,
                                               th.junk)]]]
    /\ UNCHANGED <<pc, call, host, gpu, dev, env, cs>>

\* lines 214-216: the handle goes into the slot of the shared struct
TCreate(t, slot, here, next) ==
    /\ Running(t)
    /\ th.thr[t].pc = here
    /\ gpu' = [gpu EXCEPT !.err = "CL_SUCCESS", !.buffers[slot] = BufOf(t, slot)]
    /\ th' = [th EXCEPT
                !.thr[t].pc = next,
                !.objs[BufOf(t, slot)] =
                    [live |-> TRUE,
                     data |-> Fresh(th.thr[t].size \div SizeofFloat, th.junk)]]
    /\ UNCHANGED <<pc, call, host, dev, env, cs>>

\* lines 217-218: a blocking write into the buffer the slot names now
TWrite(t, slot, here, next) ==
    /\ Running(t)
    /\ th.thr[t].pc = here
    /\ th.queue = <<>>
    /\ LET h == gpu.buffers[slot]
           n == th.thr[t].size \div SizeofFloat
       IN  \E fault \in {FALSE, Dead(h)} :
             IF fault THEN Faulted
             ELSE /\ pc' = pc
                  /\ gpu' = [gpu EXCEPT
                               !.err = IF Dead(h) THEN "CL_INVALID_MEM_OBJECT"
                                       ELSE "CL_SUCCESS",
                               !.events[WriteEvent(slot)] =
                                   IF Dead(h) THEN @ ELSE t]
                  /\ dev' = [dev EXCEPT
                               !.events = IF Dead(h) THEN @
                                          ELSE @ \cup {<<t, WriteEvent(slot)>>}]
                  /\ th' = [th EXCEPT
                               !.thr[t].pc = next,
                               !.objs = IF Dead(h) THEN @
                                        ELSE [@ EXCEPT ![h].data =
                                                SubSeq(th.thr[t].host[slot],
                                                       1, n)]]
    /\ UNCHANGED <<call, host, env, cs>>

\* lines 219-221: vals, and the wait for the two upload events of the slots
TWaitUploads(t) ==
    /\ Running(t)
    /\ th.thr[t].pc = "waitup"
    /\ gpu' = [gpu EXCEPT !.err =
                 IF gpu.events["s1Write"] # 0 /\ gpu.events["s2Write"] # 0
                 THEN "CL_SUCCESS" ELSE "CL_INVALID_EVENT"]
    /\ th' = [th EXCEPT !.thr[t].pc = "arg", !.thr[t].argi = 0,
                        !.thr[t].vals = th.thr[t].r * th.thr[t].c]
    /\ UNCHANGED <<pc, call, host, dev, env, cs>>

\* lines 222-225: the shared kernel object is bound to what the slot of the
\* shared struct holds now
TSetArg(t) ==
    /\ Running(t)
    /\ th.thr[t].pc = "arg"
    /\ LET i == th.thr[t].argi
           v == IF i <= 2 THEN gpu.buffers[SlotOfArg(i)] ELSE th.thr[t].vals
           bad == i <= 2 /\ Dead(v)
           next == IF i + 1 = NArgs("add") THEN "enqueue" ELSE "arg"
       IN  \E fault \in {FALSE, bad} :
             IF fault THEN Faulted
             ELSE /\ pc' = pc
                  /\ gpu' = [gpu EXCEPT
                               !.err = IF bad THEN "CL_INVALID_MEM_OBJECT"
                                       ELSE "CL_SUCCESS"]
                  /\ dev' = [dev EXCEPT !.args["add"] =
                               IF bad THEN @ ELSE Bind(@, i, v)]
                  /\ th' = [th EXCEPT
                               !.thr[t].pc = next,
                               !.thr[t].argi = i + 1,
                               !.thr[t].bound =
                                   Append(@, IF bad THEN UnsetArg ELSE v)]
    /\ UNCHANGED <<call, host, env, cs>>

\* lines 226-245: the command takes the arguments the kernel object holds
\* at this moment
TEnqueue(t) ==
    /\ Running(t)
    /\ th.thr[t].pc = "enqueue"
    /\ LET args == dev.args["add"]
           g == Geometry("add", th.thr[t].r, th.thr[t].c, 0)
           bound == \A i \in 1..NArgs("add") : args[i] # UnsetArg
           bad == bound /\ \E i \in 1..3 : Dead(args[i])
           ok == bound /\ ~bad /\ GeometryOk(g)
       IN  \E fault \in {FALSE, bad} :
             IF fault THEN Faulted
             ELSE /\ pc' = pc
                  /\ gpu' = [gpu EXCEPT
                               !.err = IF ok THEN "CL_SUCCESS"
                                       ELSE IF ~bound
                                       THEN "CL_INVALID_KERNEL_ARGS"
                                       ELSE IF bad THEN "CL_INVALID_MEM_OBJECT"
                                       ELSE "CL_INVALID_WORK_GROUP_SIZE",
                               !.events["add"] = IF ok THEN t ELSE @]
                  /\ dev' = [dev EXCEPT
                               !.events = IF ok THEN @ \cup {<<t, "add">>}
                                          ELSE @]
                  /\ th' = [th EXCEPT
                               !.thr[t].pc = "waitk",
                               !.thr[t].cmd = args,
                               !.thr[t].enq = ok,
                               !.queue = IF ok
                                         THEN Append(@, [by |-> t, args |-> args,
                                                         gsize |-> g.gsize])
                                         ELSE @]
    /\ UNCHANGED <<call, host, env, cs>>

\* the device runs the command at the head of the queue on the buffers the
\* command was enqueued with
TKernelRun ==
    /\ pc = "threads"
    /\ th.queue # <<>>
    /\ LET cmd == Head(th.queue)
           a == cmd.args
       IN  th' = [th EXCEPT
                    !.queue = Tail(@),
                    !.done = @ \cup {cmd.by},
                    !.objs[a[3]].data =
                        ElementwiseOut("add", th.objs[a[1]].data,
                                       th.objs[a[2]].data, @, a[4], cmd.gsize)]
    /\ UNCHANGED <<pc, call, host, gpu, dev, env, cs>>

\* line 246: the wait for the event gpu.events.addFEvent names now
TWaitKernel(t) ==
    /\ Running(t)
    /\ th.thr[t].pc = "waitk"
    /\ gpu.events["add"] # 0 => gpu.events["add"] \in th.done
    /\ gpu' = [gpu EXCEPT !.err = IF gpu.events["add"] # 0 THEN "CL_SUCCESS"
                                  ELSE "CL_INVALID_EVENT"]
    /\ th' = [th EXCEPT !.thr[t].pc = "read"]
    /\ UNCHANGED <<pc, call, host, dev, env, cs>>

\* line 247: a blocking read of the buffer gpu.buffers.s3 names now
TRead(t) ==
    /\ Running(t)
    /\ th.thr[t].pc = "read"
    /\ th.queue = <<>>
    /\ LET h == gpu.buffers["s3"]
           n == th.thr[t].size \div SizeofFloat
       IN  \E fault \in {FALSE, Dead(h)} :
             IF fault THEN Faulted
             ELSE /\ pc' = pc
                  /\ gpu' = [gpu EXCEPT
                               !.err = IF Dead(h) THEN "CL_INVALID_MEM_OBJECT"
                                       ELSE "CL_SUCCESS",
                               !.events["s3Write"] = IF Dead(h) THEN @ ELSE t]
                  /\ dev' = [dev EXCEPT
                               !.events = IF Dead(h) THEN @
                                          ELSE @ \cup {<<t, "s3Write">>}]
                  /\ th' = [th EXCEPT
                               !.thr[t].pc = "release",
                               !.thr[t].host.s3 =
                                   IF Dead(h) THEN @
                                   ELSE Downloaded(@, th.objs[h].data, n)]
    /\ UNCHANGED <<call, host, env, cs>>

\* lines 248-256: the wait for s3Write, which the blocking read completed,
\* the release of the three buffers the slots name now, and the three
\* reallocs to old_size
TRelease(t) ==
    /\ Running(t)
    /\ th.thr[t].pc = "release"
    /\ LET named == {gpu.buffers[b] : b \in Slots}
           bad == \E h \in named : Dead(h)
       IN  \E fault \in {FALSE, bad} :
             IF fault THEN Faulted
             ELSE /\ pc' = pc
                  /\ th' = [th EXCEPT
                               !.thr[t].pc = "returned",
                               !.thr[t].host =
                                   [b \in Slots |->
                                       Realloc(@[b], th.thr[t].old_size,
                                               th.junk)],
                               !.objs = [id \in ThreadBufs |->
                                           IF id \in named
                                           THEN [@[id] EXCEPT !.live = FALSE]
                                           ELSE @[id]]]
                  /\ UNCHANGED <<gpu, dev>>
    /\ UNCHANGED <<call, host, env, cs>>

TEnterCall == \E t \in Threads : TEnter(t)
TCreate1 == \E t \in Threads : TCreate(t, "s1", "create1", "create2")
TCreate2 == \E t \in Threads : TCreate(t, "s2", "create2", "create3")
TCreate3 == \E t \in Threads : TCreate(t, "s3", "create3", "write1")
TWrite1 == \E t \in Threads : TWrite(t, "s1", "write1", "write2")
TWrite2 == \E t \in Threads : TWrite(t, "s2", "write2", "waitup")
TWaitUploadsStep == \E t \in Threads : TWaitUploads(t)
TSetArgStep == \E t \in Threads : TSetArg(t)
TEnqueueStep == \E t \in Threads : TEnqueue(t)
TWaitKernelStep == \E t \in Threads : TWaitKernel(t)
TReadStep == \E t \in Threads : TRead(t)
TReleaseStep == \E t \in Threads : TRelease(t)

(***************************************************************************)
(* Specifications.                                                         *)
(***************************************************************************)
Next ==
    \/ GpuInit
    \/ CallElementwise
    \/ CallRoundTrip
    \/ CallDot
    \/ CallMatVec
    \/ PadShape
    \/ Grow
    \/ Create1
    \/ Create2
    \/ Create3
    \/ Write1
    \/ Write2
    \/ WaitUploads
    \/ SetArg
    \/ Enqueue
    \/ KernelRun
    \/ KernelStray
    \/ KernelCrash
    \/ KernelHang
    \/ WaitKernel
    \/ Read
    \/ WaitRead
    \/ Release
    \/ Shrink
    \/ GpuClean

Spec == Init /\ [][Next]_vars

\* the statements of the host inside an operation call, and the device's
\* completion of the kernel it was given
HostStep ==
    \/ PadShape
    \/ Grow
    \/ Create1
    \/ Create2
    \/ Create3
    \/ Write1
    \/ Write2
    \/ WaitUploads
    \/ SetArg
    \/ Enqueue
    \/ WaitKernel
    \/ Read
    \/ WaitRead
    \/ Release
    \/ Shrink

DeviceStep ==
    \/ KernelRun
    \/ KernelStray
    \/ KernelCrash

\* gpuInit, one call of any operation, gpuClean
NextCall ==
    \/ GpuInit
    \/ CallElementwise
    \/ CallDot
    \/ CallMatVec
    \/ HostStep
    \/ DeviceStep
    \/ KernelHang
    \/ GpuClean

\* The host runs its next statement whenever that statement can run (a
\* blocking wait cannot, until its event is complete), and the device
\* completes the kernel it has unless the kernel hangs at its barrier.
SpecLive ==
    /\ InitWith(1)
    /\ [][NextCall]_vars
    /\ WF_vars(HostStep)
    /\ WF_vars(DeviceStep)

\* gpuInit, one call of an elementwise operation, gpuClean
NextElementwise ==
    \/ GpuInit
    \/ CallElementwise
    \/ PadShape
    \/ Grow
    \/ Create1
    \/ Create2
    \/ Create3
    \/ Write1
    \/ Write2
    \/ WaitUploads
    \/ SetArg
    \/ Enqueue
    \/ KernelRun
    \/ KernelStray
    \/ KernelCrash
    \/ WaitKernel
    \/ Read
    \/ WaitRead
    \/ Release
    \/ Shrink
    \/ GpuClean

SpecElementwise == InitWith(1) /\ [][NextElementwise]_vars

\* one call of an elementwise operation in which two device calls may fail
SpecUnchecked == InitRun(1, MaxFaultsPerCall) /\ [][NextElementwise]_vars

\* gpuInit, one call of an elementwise operation on a vector, gpuClean; no
\* device call fails
NextVector ==
    \/ GpuInit
    \/ CallVector
    \/ PadShape
    \/ Grow
    \/ Create1
    \/ Create2
    \/ Create3
    \/ Write1
    \/ Write2
    \/ WaitUploads
    \/ SetArg
    \/ Enqueue
    \/ KernelRun
    \/ WaitKernel
    \/ Read
    \/ WaitRead
    \/ Release
    \/ Shrink
    \/ GpuClean

SpecVector == InitRun(1, 0) /\ [][NextVector]_vars

\* gpuInit, one call of dotMatricesF or matVecF, gpuClean
NextProducts ==
    \/ GpuInit
    \/ CallDot
    \/ CallMatVec
    \/ Create1
    \/ Create2
    \/ Create3
    \/ Write1
    \/ Write2
    \/ WaitUploads
    \/ SetArg
    \/ Enqueue
    \/ KernelRun
    \/ KernelStray
    \/ KernelCrash
    \/ KernelHang
    \/ WaitKernel
    \/ Read
    \/ WaitRead
    \/ Release
    \/ GpuClean

SpecProducts == InitWith(1) /\ [][NextProducts]_vars

\* gpuInit, then two threads that each call addShapesF once
NextThreads ==
    \/ GpuInit
    \/ Spawn
    \/ TEnterCall
    \/ TCreate1
    \/ TCreate2
    \/ TCreate3
    \/ TWrite1
    \/ TWrite2
    \/ TWaitUploadsStep
    \/ TSetArgStep
    \/ TEnqueueStep
    \/ TKernelRun
    \/ TWaitKernelStep
    \/ TReadStep
    \/ TReleaseStep

SpecThreads == InitRun(0, 0) /\ [][NextThreads]_vars

\* createShapeF alone: it touches nothing of the GPU struct
NextCreate ==
    \/ CreateShapeCall
    \/ CreateShapeFill
    \/ CreateShapeReturn

SpecCreate == Init /\ [][NextCreate]_vars


(***************************************************************************)
(* Properties.                                                             *)
(***************************************************************************)
\* an operation has returned to the caller
Returned(ops) == pc = "idle" /\ env.ncalls > 0 /\ call.op \in ops
\* every device call so far succeeded, those of gpuInit included
Clean == env.nfaults = 0 /\ ~call.failed

RECURSIVE DotSum(_, _, _, _, _, _, _)
DotSum(a, b, i, j, c, c2, n) ==
    IF n = 0 THEN 0
    ELSE DotSum(a, b, i, j, c, c2, n - 1)
         + At(a, i * c + n - 1) * At(b, (n - 1) * c2 + j)

\* C1: when an elementwise operation returns, s3[i] = s1[i] OP s2[i] for
\* every i < r*c.  Stated for the calls in which no device call failed,
\* which the claim covers.
C1_ElementwiseResult ==
    Returned(Elementwise) /\ Clean =>
        \A i \in 1..(call.r0 * call.c0) :
            /\ i \in DOMAIN host.s3
            /\ host.s3[i] = Apply(call.op, call.in1[i], call.in2[i])

\* C2: when dotMatricesF returns, s3[i*c2 + j] is the sum over k < c of
\* s1[i*c + k] * s2[k*c2 + j].  Stated for the calls in which no device
\* call failed and the kernel's stores reached the buffer of s3, which the
\* claim covers.
C2_DotResult ==
    Returned({"dot"}) /\ Clean /\ call.wrote =>
        \A i \in 0..(call.r0 - 1), j \in 0..(call.c2 - 1) :
            At(host.s3, i * call.c2 + j)
                = DotSum(call.in1, call.in2, i, j, call.c0, call.c2, call.c0)

\* C3: when matVecF returns, result[row] is vector[row] times the sum of
\* row `row` of the matrix, for every row < r.  Stated for the runs in
\* which gpuInit succeeded, which the claim covers.
C3_MatVecResult ==
    Returned({"matvec"}) /\ env.initfail = "none" =>
        \A row \in 0..(call.r0 - 1) :
            At(host.s3, row)
                = At(call.in2, row) * RowSum(call.in1, row, call.c0, call.c0)

\* C4: when an elementwise operation returns, each of the three host arrays
\* is allocated exactly r*c floats, for the r and c the caller passed.
C4_SizesRestored ==
    Returned(Elementwise) =>
        \A b \in Slots : Len(host[b]) = call.r0 * call.c0

\* C4, its case: a call that grew the arrays, whose s3 had another size
\* before, has returned with the three arrays of r*c floats
C4_Witness ==
    /\ Returned(Elementwise)
    /\ call.r0 = MaxRows /\ call.c0 = 2
    /\ call.size > call.old_size
    /\ \A b \in Slots : Len(host[b]) = call.r0 * call.c0

\* C5: createShapeF(n, v) returns n floats, each equal to v; the loop body
\* ran n times (not at all for n = 0).
C5_FilledShape ==
    cs.pc = "returned" =>
        /\ Len(cs.s1) = cs.n
        /\ \A k \in 1..cs.n : cs.s1[k] = cs.fill
        /\ cs.i = cs.n

\* C5, its case: a shape of several floats has been filled and returned
C5_Witness ==
    /\ cs.pc = "returned"
    /\ cs.n = 3 /\ cs.fill = 7
    /\ cs.s1 = <<7, 7, 7>>

\* C6: addShapesF(s1, s2, s3) and then subtractShapesF(s3, s2, s1') give
\* s1'[i] = s1[i] for every i < r*c.  Stated for the runs in which no
\* device call failed, which the claim covers.
C6_RoundTrip ==
    Returned({"sub"}) /\ call.chained /\ Clean =>
        \A i \in 1..(call.r0 * call.c0) :
            i \in DOMAIN host.s3 /\ host.s3[i] = call.orig[i]

\* C7: in every call the kernel is enqueued only after both uploads of the
\* call have completed, and s3 is downloaded only after the kernel of the
\* call has completed, also when a device call failed.
C7_StepOrder ==
    /\ call.enq => call.up1 /\ call.up2
    /\ call.read => call.kdone

\* C8: whenever no operation is in progress, exit on a failed device call
\* included, every device buffer the last call created has been released
\* exactly once and none is live.
C8_BuffersReleased ==
    pc \in {"idle", "done", "exited"} =>
        \A b \in Slots :
            /\ ~dev.buf[b].live
            /\ dev.buf[b].id # 0 => dev.buf[b].rel = 1

\* C9: once a device call of an operation has failed, the process has
\* terminated: the operation makes no step after the failed call.  Stated
\* for the runs in which gpuInit succeeded, which the claim covers.
C9_FailureIsFatal ==
    call.failed /\ env.initfail = "none" => pc = "exited"

\* C10: gpuInit does not return after one of its steps has failed.
C10_InitFailureIsFatal ==
    env.initfail # "none" => pc \in {"start", "exited"}

\* C11: whenever an operation returns to the caller, the kernel of the call
\* was enqueued, ran to completion with its stores reaching the buffer of
\* s3, and the buffer was read back into s3.  Stated for the operations
\* other than dotMatricesF in the runs in which gpuInit succeeded, which
\* the claim covers.
C11_NoPartialFailure ==
    Returned(Ops \ {"dot"}) /\ env.initfail = "none" =>
        call.enq /\ call.kdone /\ call.wrote /\ call.read

\* C12: after gpuClean no event object created during the run is left
\* unreleased.  Stated for the runs in which no device call failed, which
\* the claim covers.
C12_EventsReleased ==
    pc = "done" /\ env.nfaults = 0 => dev.events = {}

\* C13: when an operation returns, none of the event objects its own device
\* calls created is still unreleased.  Stated for the calls in which no
\* device call failed, which the claim covers.
C13_EventsNotRetained ==
    Returned(Ops) /\ Clean => \A e \in dev.events : e[1] # env.ncalls

\* C14: when an operation returns, the kernel it enqueued has completed: no
\* command is pending while the caller is between calls.
C14_Synchronous ==
    pc = "idle" => ~dev.pending.active

\* C15: nothing an earlier call left in the shared gpu state reaches a later
\* call.  Stated for the bound kernel arguments: every buffer argument the
\* kernel of a call is dispatched with was bound by that call (it is NULL or
\* a buffer the call created).
C15_NoResidualState ==
    dev.pending.active =>
        \A i \in 1..3 :
            dev.pending.args[i] \in {0} \cup {BufId(b) : b \in Slots}

\* C16: thread t dispatched (or tried to dispatch) its kernel with a buffer
\* that the other thread created and bound
CrossTalk(t) ==
    /\ th.thr[t].cmd # <<>>
    /\ \E i \in 1..3 :
          th.thr[t].cmd[i] \in ThreadBufs \ {BufOf(t, b) : b \in Slots}

\* C16: a thread's kernel is dispatched with buffers of the other thread only
\* when the calls of the two threads are not serialized: under a lock around
\* each call every dispatch carries the thread's own three buffers.
C16_CrossTalkNeedsOverlap ==
    \A t \in Threads : CrossTalk(t) => ~th.serial

\* C16, its case: without the lock, a thread has returned that had bound
\* its own three buffers, whose kernel was nevertheless dispatched with the
\* three buffers the other thread bound in between, and whose s3[0] is the
\* sum of the other thread's operands, not of its own
C16_Witness ==
    /\ pc = "threads" /\ ~th.serial
    /\ \E t \in Threads, u \in Threads :
          /\ u # t
          /\ th.thr[t].pc = "returned" /\ th.thr[t].enq
          /\ CrossTalk(t)
          /\ \A b \in Slots :
                /\ th.thr[t].bound[SlotIndex(b) + 1] = BufOf(t, b)
                /\ th.thr[t].cmd[SlotIndex(b) + 1] = BufOf(u, b)
          /\ th.thr[t].host.s3[1] = th.thr[u].in1[1] + th.thr[u].in2[1]
          /\ th.thr[t].host.s3[1] # th.thr[t].in1[1] + th.thr[t].in2[1]

\* C17: from its entry on, dotMatricesF or matVecF leaves the two input
\* arrays as the caller passed them, leaves the allocation of s3 as it
\* was, and changes no float of s3 beyond the first r*c2 (dotMatricesF) or
\* the first r (matVecF).
C17_ProductsFrame ==
    call.op \in {"dot", "matvec"} /\ env.ncalls > 0 =>
        LET n == IF call.op = "dot" THEN call.r0 * call.c2 ELSE call.r0
        IN  /\ host.s1 = call.in1
            /\ host.s2 = call.in2
            /\ Len(host.s3) = Len(call.out0)
            /\ \A i \in (n + 1)..Len(host.s3) : host.s3[i] = call.out0[i]

\* C17, its case: dotMatricesF has returned after reading its result into
\* an s3 that has a float to spare: the result has changed, the spare
\* float has not
C17_Witness ==
    /\ Returned({"dot"}) /\ call.read
    /\ call.r0 = 2 /\ call.c2 = 1
    /\ Len(call.out0) = 3 /\ Len(host.s3) = 3
    /\ host.s3[1] # call.out0[1]
    /\ host.s3[3] = call.out0[3] /\ call.out0[3] # 0
    /\ host.s1 = call.in1 /\ host.s2 = call.in2

\* C18: in a matrix-shaped elementwise call (r > 1 and c > 1) the kernel is
\* launched with padded_r * padded_c work-items.
C18_FullLaunch ==
    /\ dev.pending.active /\ dev.pending.kernel \in Elementwise
    /\ call.r0 > 1 /\ call.c0 > 1
    => WorkItems(dev.pending.gsize, dev.pending.dim) = call.r * call.c

\* C19: in a vector call (r = 1 or c = 1) of an elementwise operation, once
\* the padding is done, the unit extent is still 1 and the other extent e
\* has become p, with p = 32 for e < 32, 64 for 32 < e < 64, 128 for
\* 64 < e < 128, 256 for 128 < e < 256, and p = e for e in {32, 64, 128}
\* and for e >= 256; the kernel is enqueued with work_dim 1, global size p
\* and local size 32.
C19_VectorPadding ==
    /\ call.op \in Elementwise /\ env.ncalls > 0 /\ pc # "pad"
    /\ call.r0 = 1 \/ call.c0 = 1
    => LET e == IF call.r0 = 1 THEN call.c0 ELSE call.r0
           p == IF call.r0 = 1 THEN call.c ELSE call.r
           g == Geometry(call.op, call.r, call.c, call.c2)
       IN  /\ IF call.r0 = 1 THEN call.r = 1 ELSE call.c = 1
           /\ e < 32 => p = 32
           /\ 32 < e /\ e < 64 => p = 64
           /\ 64 < e /\ e < 128 => p = 128
           /\ 128 < e /\ e < 256 => p = 256
           /\ e \in {32, 64, 128} \/ e >= 256 => p = e
           /\ g.dim = 1 /\ g.gsize = <<p>> /\ g.lsize = <<32>>
           /\ dev.pending.active =>
                 /\ dev.pending.dim = 1
                 /\ dev.pending.gsize = <<p>>
                 /\ dev.pending.lsize = <<32>>

\* C19, its case: the kernel of a column vector of 65 floats is pending,
\* enqueued over 128 work-items in groups of 32
C19_Witness ==
    /\ call.op \in Elementwise /\ call.r0 = 65 /\ call.c0 = 1
    /\ call.r = 128 /\ call.c = 1
    /\ dev.pending.active
    /\ dev.pending.gsize = <<128>> /\ dev.pending.lsize = <<32>>

\* C20: in a matrix-shaped elementwise call (r > 1 and c > 1), once the
\* padding is done, padded_r = ladder(r) and padded_c = ladder(c).
C20_IndependentLadder ==
    /\ call.op \in Elementwise /\ env.ncalls > 0 /\ pc # "pad"
    /\ call.r0 > 1 /\ call.c0 > 1
    => call.r = Ladder(call.r0) /\ call.c = Ladder(call.c0)

\* the steps of an operation from the creation of the buffers to their
\* release
Staged ==
    {"create1", "create2", "create3", "write1", "write2", "waitup", "arg",
     "enqueue", "waitk", "read", "waitrd", "release"}

\* C21: in an elementwise call, from the creation of the device buffers to
\* their release, each of the three host arrays is allocated at least the
\* bytes of its buffer, which are the bytes every transfer moves, and the
\* padded size is at least the size of the caller's r*c floats.
C21_HostCoversTransfers ==
    call.op \in Elementwise /\ pc \in Staged =>
        /\ call.size >= call.old_size
        /\ \A b \in Slots : SizeofFloat * Len(host[b]) >= BufBytes(b)

\* C21, its case: the result of a 17 x 2 call is about to be downloaded into
\* an s3 grown from at most two floats to the 64 floats of the transfer
C21_Witness ==
    /\ call.op \in Elementwise /\ pc = "read"
    /\ call.r0 = MaxRows /\ call.c0 = 2
    /\ call.size > call.old_size
    /\ BufBytes("s3") = call.size
    /\ SizeofFloat * Len(host.s3) = call.size

\* C22: every live device buffer of an input is read-only and every live
\* device buffer of an output is not.
C22_OutputWritable ==
    \A b \in Slots :
        dev.buf[b].live => (dev.buf[b].ro <=> b \in {"s1", "s2"})

\* C26: when an elementwise call is about to enqueue its kernel, the global
\* size of dimension 0 is a positive multiple of 32.
C26_ValidLaunch ==
    call.op \in Elementwise /\ pc = "enqueue" =>
        LET g == Geometry(call.op, call.r, call.c, call.c2)
        IN  g.gsize[1] > 0 /\ g.gsize[1] % 32 = 0

\* C27: from the entry of an elementwise call on, the first r*c floats of
\* s1 and of s2 are those the caller passed, and when the call has returned
\* the two arrays are exactly those the caller passed.
C27_InputsUnchanged ==
    call.op \in Elementwise /\ env.ncalls > 0 =>
        LET n == call.r0 * call.c0
        IN  /\ Len(host.s1) >= n /\ SubSeq(host.s1, 1, n) = call.in1
            /\ Len(host.s2) >= n /\ SubSeq(host.s2, 1, n) = call.in2
            /\ pc = "idle" => host.s1 = call.in1 /\ host.s2 = call.in2

\* C27, its case: a 17 x 2 call has grown and shrunk the arrays, read its
\* result into s3 and returned, and the two inputs are as they were
C27_Witness ==
    /\ Returned(Elementwise) /\ call.read
    /\ call.r0 = MaxRows /\ call.c0 = 2
    /\ call.size > call.old_size
    /\ host.s1 = call.in1 /\ host.s2 = call.in2
    /\ host.s3 # call.in1

\* C30: every buffer argument of an enqueued kernel names a buffer that the
\* current call created and has not released.  Stated for the calls whose
\* three clCreateBuffer succeeded, which the claim covers.
C30_ArgsOfThisCall ==
    dev.pending.active /\ (\A b \in Slots : gpu.buffers[b] # 0) =>
        ArgsLive(dev.pending)

\* the place of a kind of handle in the order of the teardown
Rank(kind) ==
    CASE kind = "kernel" -> 1 [] kind = "event" -> 2 [] kind = "program" -> 3
      [] kind = "queue" -> 4 [] kind = "context" -> 5 [] kind = "device" -> 6

\* C24: the releases gpuClean has made are in the order kernels, events,
\* program, queue, context, device, and a gpuClean that has returned has
\* released the six kernels, the program, the queue, the context and the
\* device.
C24_ReleaseOrder ==
    pc \in {"done", "crashed"} =>
        /\ \A i \in DOMAIN dev.log, j \in DOMAIN dev.log :
              i < j => Rank(dev.log[i].kind) <= Rank(dev.log[j].kind)
        /\ pc = "done" =>
              /\ \A k \in Ops :
                    \E i \in 1..Cardinality(Ops) :
                        dev.log[i] = [kind |-> "kernel", name |-> k,
                                      held |-> dev.log[i].held]
              /\ \A kind \in {"program", "queue", "context", "device"} :
                    \E i \in DOMAIN dev.log : dev.log[i].kind = kind
              /\ dev.log[Len(dev.log)].kind = "device"

\* C24, its case: gpuClean has returned after an operation call, the first
\* of its releases a kernel, then events, the last four the program, the
\* queue, the context and the device
C24_Witness ==
    /\ pc = "done" /\ env.ncalls = 1 /\ env.initfail = "none"
    /\ Len(dev.log) = Len(CleanSteps)
    /\ dev.log[1].kind = "kernel" /\ dev.log[1].held
    /\ dev.log[Cardinality(Ops) + 1].kind = "event"
    /\ dev.log[Cardinality(Ops) + 1].held
    /\ <<dev.log[Len(dev.log) - 3].kind, dev.log[Len(dev.log) - 2].kind,
         dev.log[Len(dev.log) - 1].kind, dev.log[Len(dev.log)].kind>>
           = <<"program", "queue", "context", "device">>

\* C29: every release gpuClean has made names a handle that had been created
\* and not yet released.  Stated for the runs in which gpuInit succeeded,
\* which the claim covers.
C29_ReleasesHeld ==
    pc \in {"done", "crashed"} /\ env.initfail = "none" =>
        \A i \in DOMAIN dev.log : dev.log[i].held

\* a product kernel is pending, launched with the sizes it got as arguments
Launched(op) ==
    /\ dev.pending.active /\ dev.pending.kernel = op
    /\ dev.pending.gsize
         = [d \in 1..dev.pending.dim |-> dev.pending.args[4 + d]]

\* C23: in the dot-product kernel launched with global size (r, c, c2) and
\* local size (1, c, 1), every slot partial_sums[k], k < c, is written by
\* exactly one work-item of each work-group.
C23_OneWriterPerSlot ==
    Launched("dot") =>
        LET cmd == dev.pending
        IN  \A item \in NDRange(cmd) :
                \A k \in 0..(cmd.args[6] - 1) :
                    Cardinality(SlotWriters(cmd, item, k)) = 1

\* C28: in the matrix-vector kernel launched with global size (r, c) and
\* local size (1, c), every work-item passes the guard and so reaches the
\* barrier, every slot partial_sums[k], k < c, has exactly one writer in
\* each work-group, which is the group of the work-item that sums the row
\* after the barrier, and every out[row] has exactly one writer.
C28_MatVecReduction ==
    Launched("matvec") =>
        LET cmd == dev.pending
        IN  /\ \A item \in NDRange(cmd) :
                  /\ Guard(cmd, item)
                  /\ \A k \in 0..(cmd.args[6] - 1) :
                        Cardinality(SlotWriters(cmd, item, k)) = 1
            /\ \A row \in 0..(cmd.args[5] - 1) :
                  Cardinality({j \in NDRange(cmd) :
                                  Sums(cmd, j) /\ OutIndex(cmd, j) = row}) = 1

\* C28, its case: a matrix-vector kernel of several rows and two columns is
\* pending, its work-groups of two work-items each
C28_Witness ==
    /\ Launched("matvec")
    /\ dev.pending.args[5] > 1 /\ dev.pending.args[6] = MaxDim
    /\ dev.pending.lsize = <<1, MaxDim>>
    /\ WorkItems(dev.pending.gsize, dev.pending.dim)
         = dev.pending.args[5] * MaxDim

\* the host is inside an operation call
InCall == pc \in Staged \cup {"pad", "grow", "shrink"}

====
